---- MODULE Spec2Model ----
(***************************************************************************)
(* Verification model of the hammer read corrector                         *)
(* (src/assembler/src/hammer/read_corrector.cpp) and of the hammer-it      *)
(* driver (src/assembler/src/hammer-it/main.cpp).                          *)
(*                                                                         *)
(* Nucleotides are the digits 0..3 (A, C, G, T); 4 stands for the          *)
(* ambiguous symbol N.  Read positions are 0-based as in the code; TLA+    *)
(* sequences are 1-based, so the symbol at position p of s is s[p + 1].    *)
(***************************************************************************)
EXTENDS Integers, Sequences, FiniteSets, TLC

VARIABLES
    pc,                       \* position inside CorrectOneRead
    read,                     \* the sequence held by the Read object r
    data,                     \* data_: the k-mer index (present / good k-mers)
    seq,                      \* local seq of CorrectOneRead (line 116)
    island,                   \* lleft_pos, lright_pos, solid_len after phase 1
    crr_seq,                  \* seq argument of the running CorrectReadRight
    crr_right_pos,            \* right_pos argument of the running CorrectReadRight
    corrections,              \* the priority queue of CorrectReadRight
    crr_ret,                  \* string returned by the last CorrectReadRight
    crr_top,                  \* the popped state whose string was returned
    exhausted,                \* the last CorrectReadRight left its loop on an empty queue
    right_ret,                \* string returned by the right pass
    newseq,                   \* newseq of CorrectOneRead after both passes
    ret,                      \* return value of CorrectOneRead (FALSE until it returns)
    total_nucleotides_,
    changed_reads_,
    changed_nucleotides_,
    uncorrected_nucleotides_,
    crr_calls,                \* history: number of CorrectReadRight invocations
    unc_before,               \* history: uncorrected_nucleotides_ when the call began
    crr_step,                 \* history: the last pop, the rule applied and the states pushed
    parked,                   \* the locals of the other thread of the read loop
    stale,                    \* the counters as the running thread saw them when suspended
    exh_log,                  \* history: length and start position of every exhausted search
    mphase,                   \* position of main() between its parallel phases
    uf,                       \* the ConcurrentDSU uf
    unions,                   \* the union calls the clusterer issues
    pending,                  \* union calls no thread has taken yet
    wk,                       \* the clustering threads
    classes,                  \* classes, filled by uf.get_sets
    kmer_data,                \* the KMerData of hammer-it: records by index
    cw,                       \* the iterations of the consensus loop
    lock,                     \* the iteration inside the critical section
    nonread,                  \* nonread of main()
    changeto_by               \* history: the iterations that wrote each record's changeto

rcVars == << pc, read, data, seq, island, crr_seq, crr_right_pos, corrections,
             crr_ret, crr_top, exhausted, right_ret, newseq, ret,
             total_nucleotides_, changed_reads_, changed_nucleotides_,
             uncorrected_nucleotides_, crr_calls, unc_before, crr_step,
             parked, stale, exh_log >>

dsuVars == << mphase, uf, unions, pending, wk, classes >>

consVars == << kmer_data, cw, lock, nonread, changeto_by >>

mainVars == << dsuVars, consVars >>

vars == << rcVars, dsuVars, consVars >>

----------------------------------------------------------------------------
(* Bounds of the model *)

\* hammer::K, the k-mer length (scaled down)
K == 5

\* longest read of the short-read family
MaxReadLen == 10

\* length of the reads of the long-read family
LongReadLen == 40

\* length of the reads of the middle family, not a multiple of 10
MidReadLen == 13

\* kmer_data.size() when the clustering phase begins
NumKMers == 4

\* threads of the clustering phase
NumThreads == 2

\* most union calls the clusterer issues in one run
MaxUnions == 2

\* columns of the score matrix of center(), one per run length (64 in the
\* code, scaled down)
ScoreCols == 4

----------------------------------------------------------------------------
(* Program constants *)

\* positions_t = std::array<uint16_t, 4>
RingSize == 4

\* (uint16_t)-1, the unset ring entry
Unset == 65535

\* minimum spacing of the clustering rule
MinSpacing == 8

\* the four symbols tried by the correction loop
NumNucl == 4

\* read_size * 10 / 100
BudgetMul == 10

BudgetDiv == 100

\* size_t arithmetic wraps; the model keeps 30 of its 64 bits, far above
\* every read position and above the 16 bits of a ring entry
SizeModulus == 2 ^ 30

----------------------------------------------------------------------------
(* Sequences, nucleotides, k-mers *)

NSym == NumNucl

Nucl == 0 .. (NumNucl - 1)

is_nucl(c) == c \in Nucl

dignucl(c) == c

nucl(cc) == cc

Complement(c) == IF is_nucl(c) THEN (NumNucl - 1) - c ELSE c

Reverse(s) == [i \in 1 .. Len(s) |-> s[Len(s) + 1 - i]]

ReverseComplement(s) == [i \in 1 .. Len(s) |-> Complement(s[Len(s) + 1 - i])]

\* KMer(seq, from, K, raw): the K symbols of seq starting at position from
KMer(s, from) == SubSeq(s, from + 1, from + K)

\* KMer::operator<<: drop the leftmost symbol, append one at the right
ShiftKMer(last, cc) == Tail(last) \o << cc >>

\* a - b on size_t
SizeSub(a, b) == (a - b) % SizeModulus

\* number of positions at which two strings of one length differ
Differences(s, t) == Cardinality({i \in 1 .. Len(s) : s[i] # t[i]})

----------------------------------------------------------------------------
(* The k-mer index *)

checking_seq_idx_found(d, kmer) == kmer \in d.present

isGood(d, kmer) == kmer \in d.good

\* every valid window of s: the start positions ValidKMerGenerator yields
ValidStarts(s) ==
    {p \in 0 .. (Len(s) - K) : \A i \in 1 .. K : is_nucl(s[p + i])}

WindowKMers(s) == {KMer(s, p) : p \in ValidStarts(s)}

BothStrands(S) == S \cup {ReverseComplement(k) : k \in S}

\* index filled from a genome (solid k-mers), the read and the k-mers
\* observed too rarely to be solid (weak)
FillKMerData(genome, r, weak) ==
    [ good    |-> BothStrands(WindowKMers(genome) \ weak),
      present |-> BothStrands(WindowKMers(genome) \cup WindowKMers(r)) ]

----------------------------------------------------------------------------
(* CorrectOneRead, phase 1: the longest solid island *)

NoPos == -1

\* numeric::matrix<double> scores(4, 64, 0): rows by nucl
ScoreRows == 4

\* KMerHamClusterer clusterer(1)
Tau == 1

\* no iteration is inside the critical section
NoCluster == 0

IslandStart ==
    [ left_pos |-> 0, right_pos |-> 0,
      lleft_pos |-> NoPos, lright_pos |-> NoPos, solid_len |-> 0 ]

\* lines 127-143 with >= in the test of line 138
IslandStepLatest(st, read_pos, good) ==
    IF ~good THEN st
    ELSE LET run == IF read_pos # st.right_pos - K + 2
                    THEN [st EXCEPT !.left_pos = read_pos,
                                    !.right_pos = read_pos + K - 1]
                    ELSE [st EXCEPT !.right_pos = st.right_pos + 1]
         IN  IF run.right_pos - run.left_pos + 1 >= run.solid_len
             THEN [run EXCEPT !.lleft_pos = run.left_pos,
                              !.lright_pos = run.right_pos,
                              !.solid_len = run.right_pos - run.left_pos + 1]
             ELSE run

\* body of the while loop for one window (lines 127-143)
IslandStep(st, read_pos, good) ==
    IF ~good THEN st
    ELSE LET run == IF read_pos # st.right_pos - K + 2
                    THEN [st EXCEPT !.left_pos = read_pos,
                                    !.right_pos = read_pos + K - 1]
                    ELSE [st EXCEPT !.right_pos = st.right_pos + 1]
         IN  IF run.right_pos - run.left_pos + 1 > run.solid_len
             THEN [run EXCEPT !.lleft_pos = run.left_pos,
                              !.lright_pos = run.right_pos,
                              !.solid_len = run.right_pos - run.left_pos + 1]
             ELSE run

\* the loop of lines 126-148 from the window at read_pos on; the comparison
\* of the two states makes TLC evaluate each iteration before the next
RECURSIVE IslandScan(_, _, _, _)
IslandScan(s, d, read_pos, st) ==
    IF read_pos + K > Len(s) THEN st
    ELSE LET next == IF read_pos \in ValidStarts(s)
                     THEN IslandStep(st, read_pos, isGood(d, KMer(s, read_pos)))
                     ELSE st
         IN  IF next = st
             THEN IslandScan(s, d, read_pos + 1, st)
             ELSE IslandScan(s, d, read_pos + 1, next)

SolidIsland(s, d) == IslandScan(s, d, 0, IslandStart)

\* line 154 without its second test
AttemptCorrectionNoSpanTest(solid_len, read_size) == solid_len # 0

\* line 154
AttemptCorrection(solid_len, read_size) ==
    solid_len # 0 /\ solid_len # read_size

----------------------------------------------------------------------------
(* CorrectReadRight: the search states and the priority queue *)

NoState == [pos |-> NoPos]

UnsetRing == [i \in 1 .. RingSize |-> Unset]

\* no state has been popped yet
NoStep == [popped |-> NoState, rule |-> "none", pushed |-> {}]

Step(correction, rule, pushed) ==
    [popped |-> correction, rule |-> rule, pushed |-> pushed]

State(p, s, pen, l, c) ==
    [pos |-> p, str |-> s, penalty |-> pen, last |-> l, cpos |-> c]

\* std::less<state> with the penalty order reversed
LessReversed(lhs, rhs) ==
    \/ lhs.penalty > rhs.penalty
    \/ (lhs.penalty = rhs.penalty /\ lhs.pos < rhs.pos)

\* std::less<state>
Less(lhs, rhs) ==
    \/ lhs.penalty < rhs.penalty
    \/ (lhs.penalty = rhs.penalty /\ lhs.pos < rhs.pos)

\* the states priority_queue::top may return
Top(q) == {s \in q : \A t \in q : ~Less(s, t)}

\* lines 46-50 with the symbols of the k-mer in reverse order
InitialQueueReversedKMer(s, right_pos) ==
    { State(right_pos, s, 0, Reverse(KMer(s, right_pos - K + 1)), UnsetRing) }

\* lines 46-50
InitialQueue(s, right_pos) ==
    { State(right_pos, s, 0, KMer(s, right_pos - K + 1), UnsetRing) }

\* line 78 with the quotient rounded up
OverBudgetRoundedUp(correction, read_size) ==
    correction.penalty < 0 - ((read_size * BudgetMul + BudgetDiv - 1) \div BudgetDiv)

\* line 78
OverBudget(correction, read_size) ==
    correction.penalty < 0 - ((read_size * BudgetMul) \div BudgetDiv)

\* line 82 left out
ClusteredNever(correction, pos) == FALSE

\* line 82
Clustered(correction, pos) ==
    SizeSub(pos, correction.cpos[1]) < MinSpacing

\* lines 94-96
PushPos(cpos, pos) ==
    [i \in 1 .. RingSize |-> IF i < RingSize THEN cpos[i + 1] ELSE pos % (Unset + 1)]

\* line 102 overwriting the symbol before pos
EditAtBefore(str, pos, ncc) == [str EXCEPT ![pos] = ncc]

\* line 102 inserting the symbol instead of overwriting
EditAtInsert(str, pos, ncc) ==
    SubSeq(str, 1, pos) \o << ncc >> \o SubSeq(str, pos + 1, Len(str))

\* line 102
EditAt(str, pos, ncc) == [str EXCEPT ![pos + 1] = ncc]

\* lines 61-71 entered only after the test of line 78
ExtensionWithinBudget(correction, d) ==
    LET pos  == correction.pos + 1
        c    == correction.str[pos + 1]
        last == ShiftKMer(correction.last, dignucl(c))
    IN  IF /\ ~OverBudget(correction, Len(correction.str))
           /\ is_nucl(c) /\ checking_seq_idx_found(d, last) /\ isGood(d, last)
        THEN { State(pos, correction.str, correction.penalty, last, correction.cpos) }
        ELSE {}

\* lines 61-71: the single-nucleotide extension
Extension(correction, d) ==
    LET pos  == correction.pos + 1
        c    == correction.str[pos + 1]
        last == ShiftKMer(correction.last, dignucl(c))
    IN  IF is_nucl(c) /\ checking_seq_idx_found(d, last) /\ isGood(d, last)
        THEN { State(pos, correction.str, correction.penalty, last, correction.cpos) }
        ELSE {}

\* lines 88-105 pushing the states at correction.pos instead of pos
TryCorrectionsInPlace(correction, d) ==
    LET pos == correction.pos + 1
        c   == correction.str[pos + 1]
    IN  UNION { LET last == ShiftKMer(correction.last, cc)
                    cpos == PushPos(correction.cpos, pos)
                    ncc  == nucl(cc)
                IN  IF ~checking_seq_idx_found(d, last) THEN {}
                    ELSE IF c = ncc
                    THEN { State(correction.pos, correction.str,
                                 correction.penalty - (IF isGood(d, last) THEN 0 ELSE 1),
                                 last, cpos) }
                    ELSE IF isGood(d, last)
                    THEN { State(correction.pos, EditAt(correction.str, pos, ncc),
                                 correction.penalty - 1, last, cpos) }
                    ELSE {}
              : cc \in 0 .. (NumNucl - 1) }

\* lines 88-105: the states pushed by the correction loop
TryCorrections(correction, d) ==
    LET pos == correction.pos + 1
        c   == correction.str[pos + 1]
    IN  UNION { LET last == ShiftKMer(correction.last, cc)
                    cpos == PushPos(correction.cpos, pos)
                    ncc  == nucl(cc)
                IN  IF ~checking_seq_idx_found(d, last) THEN {}
                    ELSE IF c = ncc
                    THEN { State(pos, correction.str,
                                 correction.penalty - (IF isGood(d, last) THEN 0 ELSE 1),
                                 last, cpos) }
                    ELSE IF isGood(d, last)
                    THEN { State(pos, EditAt(correction.str, pos, ncc),
                                 correction.penalty - 1, last, cpos) }
                    ELSE {}
              : cc \in 0 .. (NumNucl - 1) }

\* line 63: the k-mer looked up for the extension
ExtensionLookups(correction) ==
    LET c == correction.str[correction.pos + 2]
    IN  IF is_nucl(c) THEN { ShiftKMer(correction.last, dignucl(c)) } ELSE {}

\* line 90: the k-mers looked up by the correction loop
CorrectionLookups(correction) ==
    { ShiftKMer(correction.last, cc) : cc \in 0 .. (NumNucl - 1) }

\* a lookup that inserts the k-mer it does not find
IndexAfterLookupsInserting(d, kmers) ==
    [d EXCEPT !.present = @ \cup kmers]

\* data_ after checking_seq_idx, operator[] and isGood have been called for
\* the k-mers: lookups, the index is as before
IndexAfterLookups(d, kmers) == d

----------------------------------------------------------------------------
(* Inputs: reads sampled from a genome with substitution errors *)

Genome ==
    << 1, 3, 3, 2, 1, 3, 2, 3, 2, 3, 1, 1, 0, 1, 1, 1, 1, 0, 3, 1, 2, 2,
       0, 1, 3, 2, 2, 1, 0, 3, 3, 3, 3, 3, 0, 3, 3, 0, 1, 0, 1, 3, 1, 0,
       2, 0, 0, 0 >>

GenomePrefix(n) == SubSeq(Genome, 1, n)

\* short reads: a genome prefix with up to two substituted symbols (N included)
ShortReads ==
    UNION { { [ [ GenomePrefix(n) EXCEPT ![e1] = s1 ] EXCEPT ![e2] = s2 ]
              : e1 \in 1 .. n, e2 \in 1 .. n, s1 \in 0 .. NSym, s2 \in 0 .. NSym }
            : n \in (K - 1) .. MaxReadLen }

\* middle reads: two or three substitutions two positions apart
MidErrStart == MidReadLen - 6

MidReads ==
    { [ i \in 1 .. MidReadLen |->
          IF (i - 1) \in E THEN (Genome[i] + s) % NumNucl ELSE Genome[i] ]
      : E \in { {MidErrStart, MidErrStart + 2},
                {MidErrStart, MidErrStart + 2, MidErrStart + 4} },
        s \in 1 .. (NumNucl - 1) }

\* reads of two or three islands: one substitution near the middle of a
\* stretch of 2K + 1 symbols
TwoIslandReads ==
    { [ GenomePrefix(2 * K + 1) EXCEPT ![e] = s ]
      : e \in K .. (K + 2), s \in 0 .. NSym }

\* long reads: four adjacent substitutions and a fifth one d positions later
LongErrStart == LongReadLen - 14

LongReads ==
    { [ i \in 1 .. LongReadLen |->
          IF (i - 1) \in (LongErrStart .. (LongErrStart + RingSize - 1))
                          \cup { LongErrStart + RingSize - 1 + d }
          THEN (Genome[i] + s) % NumNucl
          ELSE Genome[i] ]
      : d \in 1 .. (MinSpacing + 1), s \in 1 .. (NumNucl - 1) }

\* the genome k-mers that may be too rare to be solid: none, or the first
\* or the last window of the read's stretch of the genome
WeakChoices(r) ==
    { {} } \cup { { KMer(Genome, p) } : p \in {0, Len(r) - K} \cap (0 .. Len(r)) }

----------------------------------------------------------------------------
(* The read corrector as a state machine *)

read_size == Len(seq)

\* CorrectOneRead runs in one thread only
NoWorker == [pc |-> "none"]

\* the four counters before any read
NoCounts == [total |-> 0, reads |-> 0, nucl |-> 0, unc |-> 0]

Counts ==
    [ total |-> total_nucleotides_, reads |-> changed_reads_,
      nucl |-> changed_nucleotides_, unc |-> uncorrected_nucleotides_ ]

\* counter += delta as a load before the suspension and a store after it
NonAtomicAdd(counter, loaded, delta) == loaded + delta

\* #pragma omp atomic: counter += delta in one step
AtomicAdd(counter, loaded, delta) == counter + delta

\* the locals of CorrectOneRead and the counters before the call
InitLocals ==
    /\ pc = "start"
    /\ seq = << >>
    /\ island = IslandStart
    /\ crr_seq = << >>
    /\ crr_right_pos = NoPos
    /\ corrections = {}
    /\ crr_ret = << >>
    /\ crr_top = NoState
    /\ exhausted = FALSE
    /\ right_ret = << >>
    /\ newseq = << >>
    /\ ret = FALSE
    /\ total_nucleotides_ = 0
    /\ changed_reads_ = 0
    /\ changed_nucleotides_ = 0
    /\ uncorrected_nucleotides_ = 0
    /\ crr_calls = 0
    /\ unc_before = 0
    /\ crr_step = NoStep
    /\ stale = NoCounts
    /\ exh_log = << >>

InitRC ==
    /\ read \in ShortReads \cup TwoIslandReads \cup MidReads \cup LongReads
    /\ \E weak \in WeakChoices(read) :
          data = FillKMerData(GenomePrefix(Len(read)), read, weak)
    /\ parked = NoWorker
    /\ InitLocals

\* entry of CorrectReadRight (lines 44-50)
CallCorrectReadRight(s, right_pos) ==
    /\ crr_seq' = s
    /\ crr_right_pos' = right_pos
    /\ corrections' = InitialQueue(s, right_pos)
    /\ crr_calls' = crr_calls + 1
    /\ unc_before' = uncorrected_nucleotides_
    /\ crr_step' = NoStep
    /\ UNCHANGED << crr_ret, crr_top, exhausted >>

\* lines 116-158 and 183: phase 1, then the right pass is called or the
\* function returns
CorrectOneReadBegin ==
    /\ pc = "start"
    /\ seq' = read
    /\ LET is == SolidIsland(read, data)
       IN  /\ island' = is
           /\ total_nucleotides_' =
                  AtomicAdd(total_nucleotides_, stale.total, Len(read))
           /\ IF AttemptCorrection(is.solid_len, Len(read))
              THEN /\ CallCorrectReadRight(read, is.lright_pos)
                   /\ pc' = "right"
                   /\ ret' = ret
              ELSE /\ pc' = "done"
                   /\ ret' = (is.solid_len = Len(read))
                   /\ UNCHANGED << crr_seq, crr_right_pos, corrections, crr_calls,
                                   unc_before, crr_ret, crr_top, exhausted,
                                   crr_step >>
    /\ data' = IndexAfterLookups(data, WindowKMers(read))
    /\ UNCHANGED << read, right_ret, newseq, changed_reads_,
                    changed_nucleotides_, uncorrected_nucleotides_,
                    parked, stale, exh_log >>
    /\ UNCHANGED mainVars

InSearch == pc \in {"right", "left"}

Returned(p) == IF p = "right" THEN "right_ret" ELSE "left_ret"

searchFrame ==
    << read, seq, island, crr_seq, crr_right_pos, right_ret, newseq, ret,
       total_nucleotides_, changed_reads_, changed_nucleotides_, crr_calls,
       unc_before, parked, stale >>

\* lines 52-55: the popped state has reached the read end
PopReturn ==
    /\ InSearch
    /\ \E correction \in Top(corrections) :
          /\ correction.pos + 1 = Len(crr_seq)
          /\ crr_ret' = correction.str
          /\ crr_top' = correction
          /\ corrections' = corrections \ {correction}
          /\ crr_step' = Step(correction, "return", {})
    /\ exhausted' = FALSE
    /\ pc' = Returned(pc)
    /\ UNCHANGED << searchFrame, data, uncorrected_nucleotides_, exh_log >>
    /\ UNCHANGED mainVars

\* lines 57-75: the single-nucleotide extension is pushed
PopExtend ==
    /\ InSearch
    /\ \E correction \in Top(corrections) :
          /\ correction.pos + 1 # Len(crr_seq)
          /\ Extension(correction, data) # {}
          /\ corrections' = (corrections \ {correction}) \cup Extension(correction, data)
          /\ crr_step' = Step(correction, "extend", Extension(correction, data))
          /\ data' = IndexAfterLookups(data, ExtensionLookups(correction))
    /\ UNCHANGED << searchFrame, uncorrected_nucleotides_, pc, crr_ret, crr_top,
                    exhausted, exh_log >>
    /\ UNCHANGED mainVars

\* lines 77-79: too many corrections
PopOverBudget ==
    /\ InSearch
    /\ \E correction \in Top(corrections) :
          /\ correction.pos + 1 # Len(crr_seq)
          /\ Extension(correction, data) = {}
          /\ OverBudget(correction, Len(crr_seq))
          /\ corrections' = corrections \ {correction}
          /\ crr_step' = Step(correction, "budget", {})
          /\ data' = IndexAfterLookups(data, ExtensionLookups(correction))
    /\ UNCHANGED << searchFrame, uncorrected_nucleotides_, pc, crr_ret, crr_top,
                    exhausted, exh_log >>
    /\ UNCHANGED mainVars

\* lines 81-85: clustered corrections
PopClustered ==
    /\ InSearch
    /\ \E correction \in Top(corrections) :
          /\ correction.pos + 1 # Len(crr_seq)
          /\ Extension(correction, data) = {}
          /\ ~OverBudget(correction, Len(crr_seq))
          /\ Clustered(correction, correction.pos + 1)
          /\ corrections' = corrections \ {correction}
          /\ crr_step' = Step(correction, "cluster", {})
          /\ data' = IndexAfterLookups(data, ExtensionLookups(correction))
    /\ UNCHANGED << searchFrame, uncorrected_nucleotides_, pc, crr_ret, crr_top,
                    exhausted, exh_log >>
    /\ UNCHANGED mainVars

\* lines 87-105: the correction loop
PopTryCorrections ==
    /\ InSearch
    /\ \E correction \in Top(corrections) :
          /\ correction.pos + 1 # Len(crr_seq)
          /\ Extension(correction, data) = {}
          /\ ~OverBudget(correction, Len(crr_seq))
          /\ ~Clustered(correction, correction.pos + 1)
          /\ corrections' = (corrections \ {correction})
                                \cup TryCorrections(correction, data)
          /\ crr_step' = Step(correction, "try", TryCorrections(correction, data))
          /\ data' = IndexAfterLookups(data, ExtensionLookups(correction)
                                                \cup CorrectionLookups(correction))
    /\ UNCHANGED << searchFrame, uncorrected_nucleotides_, pc, crr_ret, crr_top,
                    exhausted, exh_log >>
    /\ UNCHANGED mainVars

\* line 109 tallying the whole read
UncorrectedTallyWholeRead(rs, right_pos) == rs

\* line 109
UncorrectedTally(rs, right_pos) == rs - right_pos

\* lines 106-111: the queue is empty
QueueExhausted ==
    /\ InSearch
    /\ corrections = {}
    /\ uncorrected_nucleotides_' =
          AtomicAdd(uncorrected_nucleotides_, stale.unc,
                    UncorrectedTally(Len(crr_seq), crr_right_pos))
    /\ exh_log' = Append(exh_log, [len |-> Len(crr_seq), start |-> crr_right_pos])
    /\ crr_ret' = crr_seq
    /\ crr_top' = NoState
    /\ exhausted' = TRUE
    /\ pc' = Returned(pc)
    /\ UNCHANGED << searchFrame, data, corrections, crr_step >>
    /\ UNCHANGED mainVars

\* lines 158-160: the right pass has returned, the left pass is called on the
\* reverse complement
CallLeft ==
    /\ pc = "right_ret"
    /\ right_ret' = crr_ret
    /\ CallCorrectReadRight(ReverseComplement(crr_ret),
                            read_size - 1 - island.lleft_pos)
    /\ pc' = "left"
    /\ UNCHANGED << read, data, seq, island, newseq, ret, total_nucleotides_,
                    changed_reads_, changed_nucleotides_, uncorrected_nucleotides_,
                    parked, stale, exh_log >>
    /\ UNCHANGED mainVars

\* line 179: the string handed to r.setSequence
StoredSequence(original, corrected) == original

\* lines 159-180: the left pass has returned
CorrectOneReadFinish ==
    /\ pc = "left_ret"
    /\ LET result    == ReverseComplement(crr_ret)
           corrected == Cardinality({i \in 1 .. read_size : seq[i] # result[i]})
       IN  /\ newseq' = result
           /\ IF corrected # 0
              THEN /\ changed_reads_' = AtomicAdd(changed_reads_, stale.reads, 1)
                   /\ changed_nucleotides_' =
                          AtomicAdd(changed_nucleotides_, stale.nucl, corrected)
              ELSE UNCHANGED << changed_reads_, changed_nucleotides_ >>
           /\ IF Len(seq) # Len(read)
              THEN /\ ret' = FALSE
                   /\ read' = read
              ELSE /\ read' = StoredSequence(seq, result)
                   /\ ret' = TRUE
    /\ pc' = "done"
    /\ UNCHANGED << data, seq, island, crr_seq, crr_right_pos, corrections, crr_ret,
                    crr_top, exhausted, right_ret, total_nucleotides_,
                    uncorrected_nucleotides_, crr_calls, unc_before, crr_step,
                    parked, stale, exh_log >>
    /\ UNCHANGED mainVars

\* main() has not been entered
MainOff ==
    /\ mphase = "off"
    /\ uf = << >>
    /\ unions = {}
    /\ pending = {}
    /\ wk = << >>
    /\ classes = << >>
    /\ kmer_data = << >>
    /\ cw = << >>
    /\ lock = NoCluster
    /\ nonread = 0
    /\ changeto_by = << >>

Init == InitRC /\ MainOff

Next ==
    \/ CorrectOneReadBegin
    \/ PopReturn
    \/ PopExtend
    \/ PopOverBudget
    \/ PopClustered
    \/ PopTryCorrections
    \/ QueueExhausted
    \/ CallLeft
    \/ CorrectOneReadFinish

Spec == Init /\ [][Next]_vars

\* one iteration of the while loop of lines 51-106, or the code after it
SearchStep ==
    \/ PopReturn
    \/ PopExtend
    \/ PopOverBudget
    \/ PopClustered
    \/ PopTryCorrections
    \/ QueueExhausted

\* the thread inside CorrectReadRight keeps running: the loop waits for
\* nothing
SpecLive == Init /\ [][Next]_vars /\ WF_vars(SearchStep)

----------------------------------------------------------------------------
(* Two threads of the read loop, each inside CorrectOneRead on a read of
   its own; data_ and the four counters are shared *)

\* length of the reads of the two threads
PoolReadLen == K + 3

\* a stretch of the genome with at most one substituted symbol (the first,
\* the last or the one after the first window), and the long reads with five
\* adjacent substitutions
PoolReads ==
    { [ GenomePrefix(PoolReadLen) EXCEPT ![e] = s ]
      : e \in {1, K + 1, PoolReadLen}, s \in {0, NSym} }
    \cup { GenomePrefix(PoolReadLen) }
    \cup { r \in LongReads :
             /\ r[LongErrStart + 1] = (Genome[LongErrStart + 1] + 1) % NumNucl
             /\ r[LongErrStart + RingSize + 1] # Genome[LongErrStart + RingSize + 1] }

\* the stretch of the genome both reads come from
PoolGenome(r1, r2) ==
    GenomePrefix(IF Len(r1) > Len(r2) THEN Len(r1) ELSE Len(r2))

\* the index filled from the genome and both reads
PoolKMerData(r1, r2, weak) ==
    [ good    |-> FillKMerData(PoolGenome(r1, r2), r1, weak).good,
      present |-> FillKMerData(PoolGenome(r1, r2), r1, weak).present
                     \cup FillKMerData(PoolGenome(r1, r2), r2, weak).present ]

\* a thread that has not entered CorrectOneRead yet
StartWorker(r) ==
    [ pc |-> "start", read |-> r, seq |-> << >>, island |-> IslandStart,
      crr_seq |-> << >>, crr_right_pos |-> NoPos, corrections |-> {},
      crr_ret |-> << >>, crr_top |-> NoState, exhausted |-> FALSE,
      right_ret |-> << >>, newseq |-> << >>, ret |-> FALSE, crr_calls |-> 0,
      unc_before |-> 0, crr_step |-> NoStep, seen |-> NoCounts ]

\* the running thread, as it is parked
RunningWorker ==
    [ pc |-> pc, read |-> read, seq |-> seq, island |-> island,
      crr_seq |-> crr_seq, crr_right_pos |-> crr_right_pos,
      corrections |-> corrections, crr_ret |-> crr_ret, crr_top |-> crr_top,
      exhausted |-> exhausted, right_ret |-> right_ret, newseq |-> newseq,
      ret |-> ret, crr_calls |-> crr_calls, unc_before |-> unc_before,
      crr_step |-> crr_step, seen |-> Counts ]

InitReads ==
    /\ \E r1 \in PoolReads, r2 \in PoolReads :
          /\ read = r1
          /\ parked = StartWorker(r2)
          /\ \E weak \in WeakChoices(r1) : data = PoolKMerData(r1, r2, weak)
    /\ InitLocals
    /\ MainOff

\* the scheduler suspends the running thread and resumes the other one
Switch ==
    /\ parked.pc \notin {"none", "done"}
    /\ parked' = RunningWorker
    /\ stale' = parked.seen
    /\ pc' = parked.pc
    /\ read' = parked.read
    /\ seq' = parked.seq
    /\ island' = parked.island
    /\ crr_seq' = parked.crr_seq
    /\ crr_right_pos' = parked.crr_right_pos
    /\ corrections' = parked.corrections
    /\ crr_ret' = parked.crr_ret
    /\ crr_top' = parked.crr_top
    /\ exhausted' = parked.exhausted
    /\ right_ret' = parked.right_ret
    /\ newseq' = parked.newseq
    /\ ret' = parked.ret
    /\ crr_calls' = parked.crr_calls
    /\ unc_before' = parked.unc_before
    /\ crr_step' = parked.crr_step
    /\ UNCHANGED << data, total_nucleotides_, changed_reads_, changed_nucleotides_,
                    uncorrected_nucleotides_, exh_log >>
    /\ UNCHANGED mainVars

NextReads ==
    \/ Next
    \/ Switch

SpecReads == InitReads /\ [][NextReads]_vars

----------------------------------------------------------------------------
(* The k-mer records of hammer-it *)

\* one homopolymer run of an HKMer
Run(n, l) == [nucl |-> n, len |-> l]

\* the runs 3..K shared by every HKMer of the input
TailRuns == [i \in 1 .. (K - 2) |-> Run((i + 2) % ScoreRows, 1)]

HK(r1, r2) == << r1, r2 >> \o TailRuns

\* quality 1.0 in tenths
QualOne == 10

\* KMerStat(count, kmer, qual), the quality in tenths; changeto starts as
\* the record's own index
KMerStat(cnt, k, q, self) ==
    [kmer |-> k, count |-> cnt, qual |-> q, changeto |-> self]

\* an HKMer that differs from HK(Run(0, 1), Run(1, 3)) in its runs 3 and 4
HK34(r3, r4) == << Run(0, 1), Run(1, 3), r3, r4 >> \o SubSeq(TailRuns, 3, K - 2)

\* kmer_data after FillKMerData: two groups of four k-mers, the k-mers of a
\* group joined by chains of single-run differences, the groups two runs
\* or more apart.  The first group varies in the runs 1 and 2, the second in
\* the runs 3 and 4; neither holds HK(Run(0, 1), Run(1, 3)).
KMerRecords ==
    LET ks == << HK(Run(0, 1), Run(1, 1)), HK(Run(0, 1), Run(1, 2)),
                 HK(Run(0, 2), Run(1, 1)), HK(Run(0, 2), Run(1, 3)),
                 HK34(Run(3, 1), Run(0, 2)), HK34(Run(3, 1), Run(0, 3)),
                 HK34(Run(3, 2), Run(0, 2)), HK34(Run(3, 2), Run(0, 1)) >>
        cs == << 3, 5, 1, 5, 6, 4, 2, 5 >>
        qs == << 0, 2, 0, 0, 5, 0, 5, 0 >>
    IN  [i \in 0 .. (Len(ks) - 1) |->
            KMerStat(cs[i + 1], ks[i + 1], qs[i + 1], i)]

----------------------------------------------------------------------------
(* main(), lines 84-91: the clustering phase on the ConcurrentDSU *)

Indices == 0 .. (NumKMers - 1)

Threads == 1 .. NumThreads

\* ConcurrentDSU uf(n): every index is a root of rank 1
NewDSU(n) == [i \in 0 .. (n - 1) |-> [root |-> TRUE, val |-> 1]]

\* the representative of i in the forest f
RECURSIVE FindRoot(_, _)
FindRoot(f, i) == IF f[i].root THEN i ELSE FindRoot(f, f[i].val)

\* the nodes on the path from i to its root, the root excluded
RECURSIVE PathTo(_, _)
PathTo(f, i) == IF f[i].root THEN {} ELSE {i} \cup PathTo(f, f[i].val)

\* find(i): path compression re-links the nodes passed to the root
Compress(f, i) ==
    [j \in DOMAIN f |->
        IF j \in PathTo(f, i) THEN [root |-> FALSE, val |-> FindRoot(f, i)] ELSE f[j]]

\* union's tie-break: the root of smaller rank goes under the root of larger
\* rank, and of two roots of one rank the one of smaller index goes under
\* the other
LinksUnder(x, xe, y, ye) ==
    xe.val < ye.val \/ (xe.val = ye.val /\ x < y)

IdleThread == [pc |-> "idle"]

\* a thread takes the next union call and finds the representative of x
UnionFindX(w) ==
    /\ mphase = "cluster"
    /\ wk[w].pc = "idle"
    /\ \E e \in pending :
          /\ pending' = pending \ {e}
          /\ wk' = [wk EXCEPT ![w] =
                      [pc |-> "find_y", x |-> FindRoot(uf, e[1]), y |-> e[2]]]
          /\ uf' = Compress(uf, e[1])
    /\ UNCHANGED << unions, classes, mphase, rcVars, consVars >>

\* a retry of the union finds the representative of x again
UnionRetryX(w) ==
    /\ mphase = "cluster"
    /\ wk[w].pc = "find_x"
    /\ wk' = [wk EXCEPT ![w] =
                [pc |-> "find_y", x |-> FindRoot(uf, wk[w].x), y |-> wk[w].y]]
    /\ uf' = Compress(uf, wk[w].x)
    /\ UNCHANGED << unions, pending, classes, mphase, rcVars, consVars >>

\* the representative of y; nothing to do when it is the one of x
UnionFindY(w) ==
    /\ mphase = "cluster"
    /\ wk[w].pc = "find_y"
    /\ LET ry == FindRoot(uf, wk[w].y)
       IN  wk' = [wk EXCEPT ![w] =
                    IF ry = wk[w].x THEN IdleThread
                    ELSE [pc |-> "read_x", x |-> wk[w].x, y |-> ry]]
    /\ uf' = Compress(uf, wk[w].y)
    /\ UNCHANGED << unions, pending, classes, mphase, rcVars, consVars >>

\* the entry of x is read
UnionReadX(w) ==
    /\ mphase = "cluster"
    /\ wk[w].pc = "read_x"
    /\ wk' = [wk EXCEPT ![w] =
                [pc |-> "read_y", x |-> wk[w].x, y |-> wk[w].y, xe |-> uf[wk[w].x]]]
    /\ UNCHANGED << uf, unions, pending, classes, mphase, rcVars, consVars >>

\* the entry of y is read; a representative that is no root any more makes
\* the union start over, otherwise the tie-break picks the root to re-link
UnionReadY(w) ==
    /\ mphase = "cluster"
    /\ wk[w].pc = "read_y"
    /\ LET x  == wk[w].x
           y  == wk[w].y
           xe == wk[w].xe
           ye == uf[y]
       IN  wk' = [wk EXCEPT ![w] =
                    IF ~xe.root \/ ~ye.root
                    THEN [pc |-> "find_x", x |-> x, y |-> y]
                    ELSE IF LinksUnder(x, xe, y, ye)
                    THEN [pc |-> "link", x |-> x, y |-> y, xe |-> xe]
                    ELSE [pc |-> "link", x |-> y, y |-> x, xe |-> ye]]
    /\ UNCHANGED << uf, unions, pending, classes, mphase, rcVars, consVars >>

\* compare-and-swap of the entry of x: x goes under y unless x has changed
UnionLink(w) ==
    /\ mphase = "cluster"
    /\ wk[w].pc = "link"
    /\ LET x == wk[w].x
           y == wk[w].y
       IN  IF uf[x] = wk[w].xe
           THEN /\ uf' = [uf EXCEPT ![x] = [root |-> FALSE, val |-> y]]
                /\ wk' = [wk EXCEPT ![w] =
                            [pc |-> "rank", y |-> y, add |-> wk[w].xe.val]]
           ELSE /\ uf' = uf
                /\ wk' = [wk EXCEPT ![w] = [pc |-> "find_x", x |-> x, y |-> y]]
    /\ UNCHANGED << unions, pending, classes, mphase, rcVars, consVars >>

\* the rank of x is added to the current representative of y
UnionRank(w) ==
    /\ mphase = "cluster"
    /\ wk[w].pc = "rank"
    /\ LET r == FindRoot(uf, wk[w].y)
           f == Compress(uf, wk[w].y)
       IN  uf' = [f EXCEPT ![r] = [root |-> TRUE, val |-> f[r].val + wk[w].add]]
    /\ wk' = [wk EXCEPT ![w] = IdleThread]
    /\ UNCHANGED << unions, pending, classes, mphase, rcVars, consVars >>

\* get_sets not waiting for clusterer.cluster to return
ClusteringDoneNotAwaited == TRUE

\* clusterer.cluster has returned: every union call has been made
ClusteringDone ==
    pending = {} /\ \A w \in Threads : wk[w].pc = "idle"

\* the ascending list of the elements of a set of indices
RECURSIVE SortedList(_)
SortedList(S) ==
    IF S = {} THEN << >>
    ELSE LET m == CHOOSE x \in S : \A y \in S : x <= y
         IN  << m >> \o SortedList(S \ {m})

\* the representatives in ascending order
RECURSIVE RootList(_, _)
RootList(f, S) ==
    IF S = {} THEN << >>
    ELSE LET m == CHOOSE x \in S : \A y \in S : x <= y
         IN  (IF f[m].root THEN << m >> ELSE << >>) \o RootList(f, S \ {m})

\* get_sets: index i is appended to the list of find(i), empty lists are
\* dropped
GetSetsOf(f) ==
    LET roots == RootList(f, DOMAIN f)
    IN  [c \in 1 .. Len(roots) |->
            SortedList({i \in DOMAIN f : FindRoot(f, i) = roots[c]})]

\* lines 87-89: uf.get_sets(classes) runs when clusterer.cluster has returned
GetSets ==
    /\ mphase = "cluster"
    /\ ClusteringDone
    /\ classes' = GetSetsOf(uf)
    /\ mphase' = "clustered"
    /\ UNCHANGED << uf, unions, pending, wk, rcVars, consVars >>

\* the union calls of one run: pairs of distinct indices
Pairs == {e \in Indices \X Indices : e[1] # e[2]}

\* the read corrector is not running
RCOff ==
    /\ pc = "off"
    /\ read = << >>
    /\ data = [good |-> {}, present |-> {}]
    /\ seq = << >>
    /\ island = IslandStart
    /\ crr_seq = << >>
    /\ crr_right_pos = NoPos
    /\ corrections = {}
    /\ crr_ret = << >>
    /\ crr_top = NoState
    /\ exhausted = FALSE
    /\ right_ret = << >>
    /\ newseq = << >>
    /\ ret = FALSE
    /\ total_nucleotides_ = 0
    /\ changed_reads_ = 0
    /\ changed_nucleotides_ = 0
    /\ uncorrected_nucleotides_ = 0
    /\ crr_calls = 0
    /\ unc_before = 0
    /\ crr_step = NoStep
    /\ parked = NoWorker
    /\ stale = NoCounts
    /\ exh_log = << >>

\* one thread making the union calls of U one after the other, in ascending
\* order of the pairs
SequentialUnion(f, e) ==
    LET x  == FindRoot(f, e[1])
        y  == FindRoot(f, e[2])
        lo == IF LinksUnder(x, f[x], y, f[y]) THEN x ELSE y
        hi == IF lo = x THEN y ELSE x
    IN  IF x = y THEN f
        ELSE [f EXCEPT ![lo] = [root |-> FALSE, val |-> hi],
                       ![hi] = [root |-> TRUE, val |-> f[hi].val + f[lo].val]]

RECURSIVE SequentialRun(_, _)
SequentialRun(f, U) ==
    IF U = {} THEN f
    ELSE LET e == CHOOSE a \in U : \A b \in U :
                      a[1] < b[1] \/ (a[1] = b[1] /\ a[2] <= b[2])
         IN  SequentialRun(SequentialUnion(f, e), U \ {e})

\* lines 84-87
InitCluster ==
    /\ RCOff
    /\ mphase = "cluster"
    /\ uf = NewDSU(NumKMers)
    /\ unions \in {U \in SUBSET Pairs : Cardinality(U) <= MaxUnions}
    /\ pending = unions
    /\ wk = [w \in Threads |-> IdleThread]
    /\ classes = << >>
    /\ kmer_data = [i \in Indices |-> KMerRecords[i]]
    /\ cw = << >>
    /\ lock = NoCluster
    /\ nonread = 0
    /\ changeto_by = [k \in Indices |-> {}]

NextCluster ==
    \/ \E w \in Threads : UnionFindX(w)
    \/ \E w \in Threads : UnionRetryX(w)
    \/ \E w \in Threads : UnionFindY(w)
    \/ \E w \in Threads : UnionReadX(w)
    \/ \E w \in Threads : UnionReadY(w)
    \/ \E w \in Threads : UnionLink(w)
    \/ \E w \in Threads : UnionRank(w)
    \/ GetSets

SpecCluster == InitCluster /\ [][NextCluster]_vars

----------------------------------------------------------------------------
(* main(), lines 93-111: the consensus phase over the classes *)

\* kmer_data.size()
Size(d) == Cardinality(DOMAIN d)

\* number of runs in which two HKMers differ
HammingDistance(a, b) == Cardinality({i \in 1 .. K : a[i] # b[i]})

\* the pairs KMerHamClusterer clusterer(1) may join
AdjacentPairs ==
    {e \in (DOMAIN KMerRecords) \X (DOMAIN KMerRecords) :
        /\ e[1] < e[2]
        /\ HammingDistance(KMerRecords[e[1]].kmer, KMerRecords[e[2]].kmer) <= Tau}

\* line 60 without the quality
WeightCountOnly(k) == k.count

\* line 60: k.count * (1 - k.qual), in tenths
Weight(k) == k.count * (QualOne - k.qual)

\* lines 54-66: scores(n, l) for position i over the members of the cluster
RECURSIVE Score(_, _, _, _, _)
Score(d, kmers, i, cell, j) ==
    IF j > Len(kmers) THEN 0
    ELSE LET k == d[kmers[j]]
             w == IF k.kmer[i] = cell THEN Weight(k) ELSE 0
             rest == Score(d, kmers, i, cell, j + 1)
         IN  IF w = 0 THEN rest ELSE w + rest

Cells == {Run(n, l) : n \in 0 .. (ScoreRows - 1), l \in 0 .. (ScoreCols - 1)}

\* hammer::iontorrent::consensus(scores).first: the cell of the greatest
\* score, of equal scores the one of lowest nucl, then of lowest len
consensus(sc) ==
    LET top  == CHOOSE m \in {sc[c] : c \in Cells} :
                    \A c \in Cells : sc[c] <= m
        best == {c \in Cells : sc[c] = top}
    IN  CHOOSE c \in best : \A b \in best :
            c.nucl < b.nucl \/ (c.nucl = b.nucl /\ c.len <= b.len)

\* lines 48-71: the score matrix of position i is zero but at the runs the
\* members have at i
center(d, kmers) ==
    [i \in 1 .. K |->
        LET seen == {d[kmers[j]].kmer[i] : j \in 1 .. Len(kmers)}
            at   == [c \in seen |-> Score(d, kmers, i, c, 1)]
        IN  consensus([c \in Cells |-> IF c \in seen THEN at[c] ELSE 0])]

\* the records the index was built with: those of kmer_data when uf was
\* made (line 84)
Built == DOMAIN uf

\* kmer_data.seq_idx(c): the index of a record holding c; a k-mer the
\* index was not built with is given the index of some other record, which
\* the test of line 100 detects.  A record appended meanwhile may or may
\* not be seen.
seq_idx(d, c) ==
    IF \E i \in Built : d[i].kmer = c
    THEN {i \in Built : d[i].kmer = c}
    ELSE Built \cup {i \in DOMAIN d : d[i].kmer = c}

\* kmer_data.push_back(k) writing at the size it read
WriteAt(d, at, k) ==
    [i \in (DOMAIN d) \cup {at} |-> IF i = at THEN k ELSE d[i]]

NoIndex == -1

\* an iteration of the loop of line 95 not yet started
IdleIteration == [pc |-> "wait", c |-> << >>, idx |-> NoIndex,
                  sz |-> NoIndex, pushed |-> NoIndex]

\* iterations some thread is running
Running == {i \in DOMAIN cw : cw[i].pc \notin {"wait", "done"}}

\* line 100 never taking the branch
MissingNever(d, idx, c) == FALSE

\* line 100: kmer_data[idx].kmer != c
Missing(d, idx, c) == d[idx].kmer # c

\* lines 96-100: a free thread takes iteration i, computes the centre, looks
\* it up and tests the record found
ClusterBegin(i) ==
    /\ mphase = "consensus"
    /\ cw[i].pc = "wait"
    /\ Cardinality(Running) < NumThreads
    /\ LET c == center(kmer_data, classes[i])
       IN  \E idx \in seq_idx(kmer_data, c) :
               cw' = [cw EXCEPT ![i] =
                         [@ EXCEPT !.c = c, !.idx = idx,
                                   !.pc = IF Missing(kmer_data, idx, c)
                                          THEN "enter" ELSE "assign"]]
    /\ UNCHANGED << kmer_data, lock, nonread, changeto_by, dsuVars, rcVars >>

\* the critical section admitting every thread at once
CriticalFreeAlways(l) == TRUE

\* line 101, #pragma omp critical: one thread at a time
CriticalFree(l) == l = NoCluster

\* lines 101-103: the iteration enters the critical section and push_back
\* reads the size of the store
CriticalEnter(i) ==
    /\ mphase = "consensus"
    /\ cw[i].pc = "enter"
    /\ CriticalFree(lock)
    /\ lock' = i
    /\ cw' = [cw EXCEPT ![i] = [@ EXCEPT !.sz = Size(kmer_data), !.pc = "push"]]
    /\ UNCHANGED << kmer_data, nonread, changeto_by, dsuVars, rcVars >>

\* lines 103-104: push_back stores KMerStat(0, c, 1.0) at the size it read
\* and returns that index; the critical section is left
PushBackReturn(i) ==
    /\ mphase = "consensus"
    /\ cw[i].pc = "push"
    /\ kmer_data' = WriteAt(kmer_data, cw[i].sz,
                            KMerStat(0, cw[i].c, QualOne, cw[i].sz))
    /\ lock' = NoCluster
    /\ cw' = [cw EXCEPT ![i] = [@ EXCEPT !.idx = cw[i].sz,
                                         !.pushed = cw[i].sz,
                                         !.pc = "count"]]
    /\ changeto_by' = [k \in DOMAIN kmer_data' |->
                          IF k \in DOMAIN changeto_by /\ k # cw[i].sz
                          THEN changeto_by[k] ELSE {}]
    /\ UNCHANGED << nonread, dsuVars, rcVars >>

\* lines 105-106: #pragma omp atomic, nonread += 1
NonreadIncrement(i) ==
    /\ mphase = "consensus"
    /\ cw[i].pc = "count"
    /\ nonread' = nonread + 1
    /\ cw' = [cw EXCEPT ![i] = [@ EXCEPT !.pc = "assign"]]
    /\ UNCHANGED << kmer_data, lock, changeto_by, dsuVars, rcVars >>

\* line 108 with j + 1 < cluster.size()
LoopMembersButLast(cluster) == {cluster[j] : j \in 1 .. (Len(cluster) - 1)}

\* line 108: the records the loop visits
LoopMembers(cluster) == {cluster[j] : j \in 1 .. Len(cluster)}

\* lines 108-109: every member's changeto is set to idx
ChangetoWrite(i) ==
    /\ mphase = "consensus"
    /\ cw[i].pc = "assign"
    /\ LET members == LoopMembers(classes[i])
       IN  /\ kmer_data' = [k \in DOMAIN kmer_data |->
                               IF k \in members
                               THEN [kmer_data[k] EXCEPT !.changeto = cw[i].idx]
                               ELSE kmer_data[k]]
           /\ changeto_by' = [k \in DOMAIN kmer_data |->
                                 IF k \in members
                                 THEN changeto_by[k] \cup {i}
                                 ELSE changeto_by[k]]
    /\ cw' = [cw EXCEPT ![i] = [@ EXCEPT !.pc = "done"]]
    /\ UNCHANGED << lock, nonread, dsuVars, rcVars >>

\* the loop of line 95 left without waiting for its iterations (nowait)
LoopJoinedNoWait == TRUE

\* line 110: the parallel loop is left when every iteration has ended
LoopJoined == \A i \in DOMAIN cw : cw[i].pc = "done"

\* line 110: the parallel loop ends
ConsensusJoin ==
    /\ mphase = "consensus"
    /\ LoopJoined
    /\ mphase' = "assigned"
    /\ UNCHANGED << uf, unions, pending, wk, classes, consVars, rcVars >>

\* lines 84-93: the state when the loop of line 95 begins; the clusterer
\* has joined some of the adjacent pairs and get_sets has filled classes
InitConsensus ==
    /\ RCOff
    /\ mphase = "consensus"
    /\ unions \in SUBSET AdjacentPairs
    /\ uf = SequentialRun(NewDSU(Size(KMerRecords)), unions)
    /\ pending = {}
    /\ wk = [w \in Threads |-> IdleThread]
    /\ classes = GetSetsOf(uf)
    /\ kmer_data = KMerRecords
    /\ cw = [i \in 1 .. Len(classes) |-> IdleIteration]
    /\ lock = NoCluster
    /\ nonread = 0
    /\ changeto_by = [k \in DOMAIN kmer_data |-> {}]

NextConsensus ==
    \/ \E i \in DOMAIN cw : ClusterBegin(i)
    \/ \E i \in DOMAIN cw : CriticalEnter(i)
    \/ \E i \in DOMAIN cw : PushBackReturn(i)
    \/ \E i \in DOMAIN cw : NonreadIncrement(i)
    \/ \E i \in DOMAIN cw : ChangetoWrite(i)
    \/ ConsensusJoin

SpecConsensus == InitConsensus /\ [][NextConsensus]_vars

----------------------------------------------------------------------------
(* main(), lines 84-119: the phases one after the other *)

\* lines 92-95: the loop over classes begins
ConsensusBegin ==
    /\ mphase = "clustered"
    /\ mphase' = "consensus"
    /\ cw' = [i \in 1 .. Len(classes) |-> IdleIteration]
    /\ nonread' = 0
    /\ UNCHANGED << uf, unions, pending, wk, classes, kmer_data, lock,
                    changeto_by, rcVars >>

\* lines 113-119: ReadProcessor::Run begins to correct reads
CorrectionBegin ==
    /\ mphase = "assigned"
    /\ mphase' = "correcting"
    /\ UNCHANGED << uf, unions, pending, wk, classes, consVars, rcVars >>

NextMain ==
    \/ NextCluster
    \/ ConsensusBegin
    \/ NextConsensus
    \/ CorrectionBegin

SpecMain == InitCluster /\ [][NextMain]_vars

----------------------------------------------------------------------------
(* The two parallel loops that update shared counters: the read loop of
   hammer and the consensus loop of hammer-it *)

InitCounters == InitReads \/ InitConsensus

NextCounters ==
    \/ NextReads
    \/ NextConsensus

SpecCounters == InitCounters /\ [][NextCounters]_vars

----------------------------------------------------------------------------
(* Properties *)

\* positions at which two strings of one length differ
EditPositions(s, t) == {i \in 1 .. Len(s) : s[i] # t[i]}

\* every k-mer window of s is a good k-mer of the index
FullySolid(s, d) ==
    /\ Len(s) >= K
    /\ \A p \in 0 .. (Len(s) - K) : p \in ValidStarts(s) /\ isGood(d, KMer(s, p))

\* no k-mer window of s is good
NoGoodWindow(s, d) ==
    \A p \in ValidStarts(s) : ~isGood(d, KMer(s, p))

Attempted == crr_calls > 0

CrrReturned == pc \in {"right_ret", "left_ret"}

\* C1: when correction was attempted, the read's sequence after the call
\* differs from its sequence before the call (seq) at exactly as many
\* positions as the call added to changed_nucleotides_, and changed_reads_
\* grew by 1 exactly when that number is not zero.
C1_StoredSequenceIsCorrected ==
    (pc = "done" /\ Attempted) =>
        /\ Cardinality(EditPositions(read, seq)) = changed_nucleotides_
        /\ (changed_reads_ = 1) <=> (EditPositions(read, seq) # {})

\* C2: CorrectOneRead returns true only if every k-mer window of the read's
\* resulting sequence is a good k-mer of the index.
C2_TrueOnlyIfFullySolid ==
    (pc = "done" /\ ret = TRUE) => FullySolid(read, data)

AtMostRingSizeInStretch(s, t) ==
    \A e \in EditPositions(s, t) :
        Cardinality({f \in EditPositions(s, t) : e <= f /\ f < e + MinSpacing})
            <= RingSize

C4_FirstCompletionIsLeastPenalized ==
    /\ (CrrReturned /\ ~exhausted) =>
          \A s \in corrections : s.penalty <= crr_top.penalty
    /\ (InSearch \/ CrrReturned) =>
          \A s \in corrections :
              (s.pos + 1 < Len(crr_seq)) =>
                  \A n \in Extension(s, data) \cup TryCorrections(s, data) :
                      n.penalty <= s.penalty

\* C4 witness: a completed state with edits was returned while the queue
\* still held a state with a strictly lower penalty value
C4_Witness ==
    /\ CrrReturned
    /\ ~exhausted
    /\ crr_top.penalty < 0
    /\ \E s \in corrections : s.penalty < crr_top.penalty

\* C5: every string of a search state and every returned string has the
\* length of the input, the sequence after both passes has the length of the
\* read, and an attempted correction never ends in the length rejection.
C5_LengthPreserved ==
    /\ \A s \in corrections : Len(s.str) = Len(crr_seq)
    /\ (InSearch \/ CrrReturned) => Len(crr_seq) = Len(seq)
    /\ CrrReturned => Len(crr_ret) = Len(crr_seq)
    /\ (pc = "done" /\ Attempted) => (Len(newseq) = Len(seq) /\ ret = TRUE)

\* C5 witness: both passes ran, the sequence was edited and has the length
\* of the read
C5_Witness ==
    /\ pc = "done"
    /\ Attempted
    /\ newseq # seq
    /\ Len(newseq) = Len(seq)

\* C6: if no window of the read is good, or every window is good,
\* CorrectReadRight is never invoked, the read's sequence and the changed /
\* uncorrected counters stay as they were, total_nucleotides_ grows by the
\* read length, and the result is true exactly when every window is good.
C6_NoAttemptFrame ==
    (pc = "done" /\ (NoGoodWindow(seq, data) \/ FullySolid(seq, data))) =>
        /\ crr_calls = 0
        /\ read = seq
        /\ changed_reads_ = 0
        /\ changed_nucleotides_ = 0
        /\ uncorrected_nucleotides_ = 0
        /\ total_nucleotides_ = Len(seq)
        /\ ret = FullySolid(seq, data)

\* C6 witness: a read whose every window is good has been processed
C6_Witness ==
    /\ pc = "done"
    /\ FullySolid(seq, data)
    /\ ret = TRUE
    /\ total_nucleotides_ = Len(seq)

\* C7: a call whose queue emptied returns exactly its input (so a failed left
\* pass keeps the edits of the right pass) and adds read_size - right_pos to
\* uncorrected_nucleotides_; a call that reached the read end leaves
\* uncorrected_nucleotides_ as it was.
C7_ExhaustionReturnsInput ==
    CrrReturned =>
        /\ exhausted =>
              /\ crr_ret = crr_seq
              /\ uncorrected_nucleotides_
                    = unc_before + (Len(crr_seq) - crr_right_pos)
              /\ (pc = "left_ret") => (ReverseComplement(crr_ret) = right_ret)
        /\ ~exhausted => uncorrected_nucleotides_ = unc_before

\* C7 witness: the left pass failed after the right pass had edited the read
C7_Witness ==
    /\ pc = "left_ret"
    /\ exhausted
    /\ right_ret # seq
    /\ uncorrected_nucleotides_ > 0

\* the indices a chain of union calls links to those of S
RECURSIVE Reach(_, _)
Reach(U, S) ==
    LET S2 == S \cup {j \in Indices : \E e \in U :
                        \/ (e[1] \in S /\ e[2] = j)
                        \/ (e[2] \in S /\ e[1] = j)}
    IN  IF S2 = S THEN S ELSE Reach(U, S2)

ChainConnected(i, j) == j \in Reach(unions, {i})

\* the places of index i in the lists of classes
PlacesOf(i) ==
    {p \in (1 .. Len(classes)) \X Indices :
        p[2] + 1 <= Len(classes[p[1]]) /\ classes[p[1]][p[2] + 1] = i}

SameList(i, j) ==
    \E c \in 1 .. Len(classes) :
        /\ \E k \in 1 .. Len(classes[c]) : classes[c][k] = i
        /\ \E k \in 1 .. Len(classes[c]) : classes[c][k] = j

\* the partition a forest stands for
PartitionOf(f) ==
    {{j \in DOMAIN f : FindRoot(f, j) = FindRoot(f, i)} : i \in DOMAIN f}

\* the partition the lists of classes stand for
ClassSets ==
    {{classes[c][k] : k \in 1 .. Len(classes[c])} : c \in 1 .. Len(classes)}

\* C8: once get_sets has run, after all concurrent union calls, every index
\* is in exactly one list, and two indices are in one list, and have one
\* representative, exactly when a chain of union calls connects them.
C8_PartitionIsConnectivity ==
    (mphase = "clustered") =>
        /\ \A i \in Indices : Cardinality(PlacesOf(i)) = 1
        /\ \A i, j \in Indices :
              /\ SameList(i, j) <=> ChainConnected(i, j)
              /\ (FindRoot(uf, i) = FindRoot(uf, j)) <=> ChainConnected(i, j)

\* C8 witness: get_sets has returned a list of three indices joined by two
\* union calls and left another index alone
C8_Witness ==
    /\ mphase = "clustered"
    /\ Cardinality(unions) >= 2
    /\ \E c \in 1 .. Len(classes) : Len(classes[c]) >= 3
    /\ \E c \in 1 .. Len(classes) : Len(classes[c]) = 1

\* C9: whatever the schedule of the threads, the partition get_sets returns
\* is the one a single thread making the same union calls one after the
\* other ends with, so two runs of the same union calls end with the same
\* cluster membership.
C9_PartitionScheduleIndependent ==
    (mphase = "clustered") =>
        ClassSets = PartitionOf(SequentialRun(NewDSU(NumKMers), unions))

\* C9 witness: a run whose forest has other representatives than the
\* sequential run of the same union calls
C9_Witness ==
    /\ mphase = "clustered"
    /\ {i \in Indices : uf[i].root}
          # {i \in Indices : SequentialRun(NewDSU(NumKMers), unions)[i].root}

\* the records of d keep their index and their k-mer, count and quality in e
RecordsStay(d, e) ==
    \A i \in DOMAIN d :
        /\ i \in DOMAIN e
        /\ e[i].kmer = d[i].kmer
        /\ e[i].count = d[i].count
        /\ e[i].qual = d[i].qual

\* iterations whose push_back returns in the step
PushBackReturns == {i \in DOMAIN cw : cw[i].pushed = NoIndex /\ cw'[i].pushed # NoIndex}

\* C10: in every step of the consensus phase the records of kmer_data keep
\* their indices, and an index push_back returns in the step is neither the
\* index of a record that existed before the step nor an index push_back
\* has returned to another iteration.
C10_PushBackIndicesFresh ==
    [][ /\ RecordsStay(kmer_data, kmer_data')
        /\ \A i \in PushBackReturns :
              /\ cw'[i].pushed \notin DOMAIN kmer_data
              /\ \A j \in (DOMAIN cw) \ {i} : cw'[j].pushed # cw'[i].pushed ]_vars

\* two iterations have appended their centres
C10_Witness ==
    /\ mphase = "consensus"
    /\ \E i, j \in DOMAIN cw :
          /\ i # j
          /\ cw[i].pushed # NoIndex
          /\ cw[j].pushed # NoIndex
    /\ Size(kmer_data) = Size(KMerRecords) + 2

\* the members of the i-th list of classes
MembersOf(i) == {classes[i][j] : j \in 1 .. Len(classes[i])}

\* C11: when the consensus loop has ended, the members of every list of
\* classes have one and the same changeto, the record at that index holds
\* the k-mer center() gives for the list, and each member's changeto was
\* written by the iteration of its own list and by no other.
C11_MembersPointToCentre ==
    (mphase = "assigned") =>
        \A i \in 1 .. Len(classes) :
            /\ \E idx \in DOMAIN kmer_data :
                  /\ \A k \in MembersOf(i) : kmer_data[k].changeto = idx
                  /\ kmer_data[idx].kmer = center(kmer_data, classes[i])
            /\ \A k \in MembersOf(i) : changeto_by[k] = {i}

\* the loop has ended with one list of several members whose centre was
\* appended and another whose centre was found
C11_Witness ==
    /\ mphase = "assigned"
    /\ \E i, j \in DOMAIN cw :
          /\ Len(classes[i]) >= 2
          /\ Len(classes[j]) >= 2
          /\ cw[i].pushed # NoIndex
          /\ cw[j].pushed = NoIndex

RECURSIVE SumOfWeights(_, _)
SumOfWeights(d, S) ==
    IF S = {} THEN 0
    ELSE LET k == CHOOSE x \in S : TRUE
         IN  d[k].count * (10 - d[k].qual) + SumOfWeights(d, S \ {k})

\* the accumulated weight of a cell at position p for the i-th list
CellWeight(i, p, cell) ==
    SumOfWeights(kmer_data, {k \in MembersOf(i) : kmer_data[k].kmer[p] = cell})

\* C13: at every position the centre has a cell of the greatest accumulated
\* weight, of cells of that weight the one of lowest nucl, then of lowest
\* len; a member outweighing all the others together is the centre.
C13_CentreIsWeightedArgmax ==
    \A i \in DOMAIN cw :
        (cw[i].pc # "wait") =>
            /\ \A p \in 1 .. K :
                  LET w == CellWeight(i, p, cw[i].c[p])
                  IN  \A x \in Cells :
                          LET v == CellWeight(i, p, x)
                          IN  \/ v < w
                              \/ /\ v = w
                                 /\ \/ cw[i].c[p].nucl < x.nucl
                                    \/ /\ cw[i].c[p].nucl = x.nucl
                                       /\ cw[i].c[p].len <= x.len
            /\ \A m \in MembersOf(i) :
                  (SumOfWeights(kmer_data, {m})
                      > SumOfWeights(kmer_data, MembersOf(i) \ {m}))
                  => cw[i].c = kmer_data[m].kmer

\* one centre was decided by the tie-break between two cells of equal
\* greatest weight, and another list of several members has a member that
\* outweighs the rest
C13_Witness ==
    /\ \E i \in DOMAIN cw :
          /\ cw[i].pc # "wait"
          /\ \E p \in 1 .. K : \E x \in Cells :
                /\ x # cw[i].c[p]
                /\ CellWeight(i, p, x) = CellWeight(i, p, cw[i].c[p])
    /\ \E j \in DOMAIN cw :
          /\ cw[j].pc # "wait"
          /\ Len(classes[j]) >= 2
          /\ \E m \in MembersOf(j) :
                SumOfWeights(kmer_data, {m})
                    > SumOfWeights(kmer_data, MembersOf(j) \ {m})

\* every union call has been taken and finished
UnionsCompleted ==
    /\ pending = {}
    /\ \A w \in DOMAIN wk : wk[w].pc = "idle"

\* C15: classes is filled once, and only when every union call has
\* completed; an iteration of the consensus loop has started only if
\* classes is filled; read correction has begun only if every iteration has
\* written its members' changeto and no push_back is under way.
C15_PhasesSeparated ==
    /\ [](/\ (classes # << >>) => UnionsCompleted
          /\ (\E i \in DOMAIN cw : cw[i].pc # "wait") =>
                /\ classes # << >>
                /\ mphase # "cluster"
          /\ (mphase = "correcting") =>
                /\ \A i \in DOMAIN cw : cw[i].pc = "done"
                /\ lock = NoCluster
                /\ \A k \in Built : changeto_by[k] # {})
    /\ [][(classes # << >>) => (classes' = classes)]_vars

\* read correction has begun after a run in which two union calls were
\* made and a centre was appended
C15_Witness ==
    /\ mphase = "correcting"
    /\ Cardinality(unions) >= 2
    /\ \E i \in DOMAIN cw : cw[i].pushed # NoIndex
    /\ \E i \in DOMAIN cw : cw[i].pushed = NoIndex

\* both threads of the read loop have returned from CorrectOneRead
ReadsDone == pc = "done" /\ parked.pc = "done"

Workers == << RunningWorker, parked >>

\* positions at which the corrected sequence of a thread differs from its read
ChangedPositions(w) ==
    IF w.newseq = << >> THEN 0 ELSE Differences(w.seq, w.newseq)

RECURSIVE SumExhausted(_)
SumExhausted(log) ==
    IF log = << >> THEN 0
    ELSE (Head(log).len - Head(log).start) + SumExhausted(Tail(log))

\* C14: when both threads have returned, total_nucleotides_ is the sum of the
\* read lengths, changed_reads_ the number of reads whose corrected sequence
\* differs, changed_nucleotides_ the sum of their differing positions and
\* uncorrected_nucleotides_ the sum of length - start over the exhausted
\* searches; when the consensus loop has ended, nonread is the number of
\* records push_back appended.
C14_NoCounterUpdateLost ==
    /\ ReadsDone =>
          /\ total_nucleotides_ = Len(Workers[1].read) + Len(Workers[2].read)
          /\ changed_reads_ =
                Cardinality({i \in 1 .. 2 : ChangedPositions(Workers[i]) > 0})
          /\ changed_nucleotides_ =
                ChangedPositions(Workers[1]) + ChangedPositions(Workers[2])
          /\ uncorrected_nucleotides_ = SumExhausted(exh_log)
    /\ (mphase = "assigned") =>
          nonread = Cardinality((DOMAIN kmer_data) \ Built)

\* both threads have returned; the thread that returned last was suspended
\* between the two updates of total_nucleotides_ and before an update of
\* uncorrected_nucleotides_ by the other thread, and a read was changed
C14_Witness ==
    /\ ReadsDone
    /\ stale.total # 0
    /\ stale.total # total_nucleotides_
    /\ stale.unc # uncorrected_nucleotides_
    /\ changed_reads_ >= 1
    /\ Len(exh_log) >= 1

\* the consensus loop has ended with two records appended
C14_ConsensusWitness ==
    /\ mphase = "assigned"
    /\ nonread >= 2

NoExtensionPop == crr_step.rule \in {"budget", "cluster", "try"}

\* the symbol of the popped state at the position looked at, and the k-mer
\* shifted by it
StepPos == crr_step.popped.pos + 1

StepSymbol == crr_step.popped.str[StepPos + 1]

StepShifted == Tail(crr_step.popped.last) \o << StepSymbol >>

\* C17: every call of CorrectReadRight ends; every pushed state is one
\* position beyond the popped state and a pop pushes at most 4 states.
C17_SearchTerminates ==
    /\ [](/\ \A s \in crr_step.pushed : s.pos = crr_step.popped.pos + 1
          /\ Cardinality(crr_step.pushed) <= NumNucl)
    /\ (pc \in {"right", "left"}) ~> (pc \in {"right_ret", "left_ret"})

\* a call in which a pop pushed several states has ended on an empty queue
C17_Witness ==
    /\ pc \in {"right_ret", "left_ret"}
    /\ exhausted
    /\ crr_step.rule # "none"
    /\ Len(crr_seq) = MidReadLen

\* C18: when the symbol at pos is a nucleotide and the shifted k-mer is
\* present and good, the pop pushes exactly one state: position pos, the
\* string, penalty and ring of the popped state, and the shifted k-mer.
C18_ExtensionOnly ==
    (/\ crr_step.rule \notin {"none", "return"}
     /\ StepSymbol \in 0 .. (NumNucl - 1)
     /\ StepShifted \in data.present
     /\ StepShifted \in data.good)
    => /\ crr_step.rule = "extend"
       /\ crr_step.pushed =
             { [ pos |-> StepPos, str |-> crr_step.popped.str,
                 penalty |-> crr_step.popped.penalty, last |-> StepShifted,
                 cpos |-> crr_step.popped.cpos ] }

\* a state was extended although its penalty is beyond the budget
C18_Witness ==
    /\ crr_step.rule = "extend"
    /\ crr_step.popped.penalty * 10 < 0 - Len(crr_seq)
    /\ Cardinality(crr_step.pushed) = 1

\* C19: a popped state with no extension is abandoned by the budget rule
\* exactly when its penalty is below -0.1 * read_length (both sides times 10).
C19_BudgetIsTenthOfLength ==
    NoExtensionPop =>
        /\ (crr_step.rule = "budget")
              <=> (crr_step.popped.penalty * 10 < 0 - Len(crr_seq))
        /\ (crr_step.rule = "budget") => crr_step.pushed = {}

\* in a read whose length is above 10 and no multiple of 10 a state of
\* penalty -2 was abandoned by the budget rule
C19_Witness ==
    /\ crr_step.rule = "budget"
    /\ Len(crr_seq) > 10
    /\ Len(crr_seq) % 10 # 0
    /\ crr_step.popped.penalty = 0 - 2

\* a state of penalty -1 was kept by the budget rule in such a read
C19_KeptWitness ==
    /\ crr_step.rule = "try"
    /\ Len(crr_seq) > 10
    /\ Len(crr_seq) % 10 # 0
    /\ crr_step.popped.penalty = 0 - 1

Recorded(s) == {s.cpos[i] : i \in 1 .. RingSize} \ {Unset}

\* C21: in every search state every recorded position of the ring
\* is a position at which the state's string differs from the input.
C21_RingEntriesAreEdits ==
    \A s \in corrections : \A e \in Recorded(s) : s.str[e + 1] # crr_seq[e + 1]

\* what lines 94-103 do instead: every recorded position lies after the
\* start position and not after the state's position, and there the string
\* differs from the input or the window ending there is not good; each state
\* pushed by the correction loop has the ring of the popped state with the
\* oldest entry dropped and pos appended, also when it keeps the symbol.
RingEntriesArePenalized ==
    /\ \A s \in corrections : \A e \in Recorded(s) :
          /\ crr_right_pos < e
          /\ e <= s.pos
          /\ \/ s.str[e + 1] # crr_seq[e + 1]
             \/ ~isGood(data, KMer(s.str, e - K + 1))
    /\ (crr_step.rule = "try") =>
          \A s \in crr_step.pushed :
              s.cpos = Tail(crr_step.popped.cpos) \o << crr_step.popped.pos + 1 >>
    /\ (crr_step.rule = "extend") =>
          \A s \in crr_step.pushed : s.cpos = crr_step.popped.cpos

\* the correction loop has pushed a state that keeps the symbol of the
\* input at pos and records pos in its ring
KeptSymbolRecorded ==
    /\ crr_step.rule = "try"
    /\ \E s \in crr_step.pushed \cap corrections :
          /\ s.str = crr_step.popped.str
          /\ s.str[s.pos + 1] = crr_seq[s.pos + 1]
          /\ s.pos \in Recorded(s)

\* the k-mer the correction loop looks up for the symbol cc
StepKMer(cc) == Tail(crr_step.popped.last) \o << cc >>

\* the states the last pop pushed for the symbol cc
PushedFor(cc) == {s \in crr_step.pushed : s.last = StepKMer(cc)}

\* C22: in the correction loop a symbol whose shifted k-mer is absent yields
\* nothing; the symbol equal to c yields one state with the string unchanged
\* and the penalty reduced by 0 if the k-mer is good and by 1 otherwise, which
\* is always by 1 because a good one is taken by the extension; a symbol other
\* than c yields a state only if the k-mer is good, with the string edited at
\* pos and the penalty reduced by 1.
C22_EditExploration ==
    (crr_step.rule = "try") =>
        /\ crr_step.pushed = UNION {PushedFor(cc) : cc \in 0 .. (NumNucl - 1)}
        /\ \A cc \in 0 .. (NumNucl - 1) :
              IF StepKMer(cc) \notin data.present
              THEN PushedFor(cc) = {}
              ELSE IF cc = StepSymbol
              THEN /\ Cardinality(PushedFor(cc)) = 1
                   /\ \A s \in PushedFor(cc) :
                         /\ s.str = crr_step.popped.str
                         /\ s.penalty = crr_step.popped.penalty
                               - (IF StepKMer(cc) \in data.good THEN 0 ELSE 1)
                         /\ s.penalty = crr_step.popped.penalty - 1
              ELSE IF StepKMer(cc) \in data.good
              THEN /\ Cardinality(PushedFor(cc)) = 1
                   /\ \A s \in PushedFor(cc) :
                         /\ s.str = [crr_step.popped.str EXCEPT ![StepPos + 1] = cc]
                         /\ s.penalty = crr_step.popped.penalty - 1
              ELSE PushedFor(cc) = {}

\* the correction loop has pushed a state that keeps c and a state that
\* replaces it, has found a k-mer absent and has passed over a symbol other
\* than c whose k-mer is present and not good
C22_Witness ==
    /\ crr_step.rule = "try"
    /\ StepSymbol \in 0 .. (NumNucl - 1)
    /\ PushedFor(StepSymbol) # {}
    /\ \E cc \in 0 .. (NumNucl - 1) : cc # StepSymbol /\ PushedFor(cc) # {}
    /\ \E cc \in 0 .. (NumNucl - 1) : StepKMer(cc) \notin data.present
    /\ \E cc \in 0 .. (NumNucl - 1) :
          /\ cc # StepSymbol
          /\ StepKMer(cc) \in data.present \ data.good

\* phase 1 of CorrectOneRead has just ended: the right pass is about to
\* begin or the function has returned without a pass
AfterPhase1 ==
    \/ pc = "right" /\ crr_step = NoStep
    \/ pc = "done" /\ crr_calls = 0

\* the start positions of the good windows of the read
GoodStarts == {p \in ValidStarts(seq) : isGood(data, KMer(seq, p))}

\* the runs of consecutive windows of G: first and last start position
GoodRuns(G) ==
    {r \in G \X G :
        /\ r[1] <= r[2]
        /\ \A p \in r[1] .. r[2] : p \in G
        /\ (r[1] - 1) \notin G
        /\ (r[2] + 1) \notin G}

\* C23: after phase 1, if a window is good, lleft_pos is the start of the
\* first window and lright_pos the end of the last window of a run of
\* consecutive good windows, solid_len = lright_pos - lleft_pos + 1, no run
\* is longer and no run of the same length lies further left.
C23_LongestLeftmostIsland ==
    (AfterPhase1 /\ GoodStarts # {}) =>
        LET runs == GoodRuns(GoodStarts)
        IN  /\ << island.lleft_pos, island.lright_pos - K + 1 >> \in runs
            /\ island.solid_len = island.lright_pos - island.lleft_pos + 1
            /\ \A r \in runs :
                  /\ r[2] - r[1] + K <= island.solid_len
                  /\ (r[2] - r[1] + K = island.solid_len)
                        => island.lleft_pos <= r[1]

\* phase 1 has ended on a read with two runs of the greatest length and a
\* skipped window between them
C23_Witness ==
    /\ AfterPhase1
    /\ \E r \in GoodRuns(GoodStarts) :
          /\ r[2] - r[1] + K = island.solid_len
          /\ island.lleft_pos < r[1]
          /\ \E p \in (island.lleft_pos + 1) .. (r[1] - 1) : p \notin ValidStarts(seq)

\* the strings s and t have the same symbols at the positions from..to
AgreeOn(s, t, from, to) == \A i \in from .. to : s[i + 1] = t[i + 1]

\* C24: every search state's string has the symbols of the input at the
\* positions 0..start_pos; the string the right pass returns has those of the
\* read up to the island's right edge, the left pass changes no position from
\* the island's left edge on, and the island is the same in seq and newseq.
C24_OnlyBeyondStartChanged ==
    /\ InSearch => \A s \in corrections : AgreeOn(s.str, crr_seq, 0, crr_right_pos)
    /\ (pc \in {"right_ret", "left_ret"}) => AgreeOn(crr_ret, crr_seq, 0, crr_right_pos)
    /\ (pc = "right_ret") => AgreeOn(crr_ret, seq, 0, island.lright_pos)
    /\ (pc = "done" /\ crr_calls = 2) =>
          /\ AgreeOn(right_ret, seq, 0, island.lright_pos)
          /\ AgreeOn(newseq, right_ret, island.lleft_pos, Len(seq) - 1)
          /\ AgreeOn(newseq, seq, island.lleft_pos, island.lright_pos)

\* both passes have changed the read: the right pass after the island, the
\* left pass before it
C24_Witness ==
    /\ pc = "done"
    /\ crr_calls = 2
    /\ right_ret # seq
    /\ newseq # right_ret
    /\ island.lleft_pos > 0
    /\ island.lright_pos < Len(seq) - 1

\* the input of the running search has nucleotides only from the start
\* window on
ValidFromStartWindow ==
    \A i \in (crr_right_pos - K + 1) .. (Len(crr_seq) - 1) : is_nucl(crr_seq[i + 1])

\* C25: when the input has only nucleotides from the start window on, in
\* every search state last is the k-mer of the K symbols of the state's
\* string that end at the state's position, and every window of the string
\* that ends after start_pos and not after the state's position is present
\* in the index; no pushed state has a greater penalty than the popped one.
C25_LastIsWindowOfString ==
    /\ (InSearch /\ ValidFromStartWindow) =>
          \A s \in corrections :
              /\ s.last = KMer(s.str, s.pos - K + 1)
              /\ \A e \in (crr_right_pos + 1) .. s.pos :
                    KMer(s.str, e - K + 1) \in data.present
    /\ \A s \in crr_step.pushed : s.penalty <= crr_step.popped.penalty

\* a state two or more positions beyond the start with an edited string
C25_Witness ==
    /\ InSearch
    /\ ValidFromStartWindow
    /\ \E s \in corrections :
          /\ s.pos >= crr_right_pos + 2
          /\ s.str # crr_seq
          /\ s.penalty < 0

\* C26: when the consensus loop has ended no two records of kmer_data hold
\* the same k-mer.
C26_NoTwoRecordsOfOneKMer ==
    (mphase = "assigned") =>
        \A i \in DOMAIN kmer_data : \A j \in DOMAIN kmer_data :
            (i # j) => kmer_data[i].kmer # kmer_data[j].kmer

\* two iterations whose lists gave the same centre have each appended a
\* record for it
TwoRecordsOfOneCentre ==
    /\ mphase = "assigned"
    /\ \E i \in DOMAIN cw : \E j \in DOMAIN cw :
          /\ i # j
          /\ cw[i].c = cw[j].c
          /\ cw[i].pushed # NoIndex
          /\ cw[j].pushed # NoIndex
          /\ cw[i].pushed # cw[j].pushed

====
